---------------------------- MODULE Spec2Model ----------------------------
(***************************************************************************)
(* A model of the interior-walkthrough viewer:                             *)
(*   - the model loader hook  (hooks/useModelLoader.js: useModelLoader,    *)
(*     extractPLYMesh, extractMeshes),                                     *)
(*   - the first-person camera hook (hooks/useFirstPersonControls.js).     *)
(*                                                                         *)
(* Conventions.                                                            *)
(*   - A JavaScript value that may be null/undefined is a sequence of      *)
(*     length 0 (null) or 1 (the value).  An accessor index that is        *)
(*     undefined is Undefined (-1).                                        *)
(*   - A typed array is [type, data]; NoArray stands for null/undefined.   *)
(*     Typed arrays are objects, hence always truthy, also when empty.     *)
(*   - Lengths, offsets and counts are the program's numbers.  Times are   *)
(*     in 1/Scale s and positions in 1/Scale units, so that the physics    *)
(*     arithmetic of animate is exact on integers; angles are in 1/100     *)
(*     degree.                                                             *)
(***************************************************************************)
EXTENDS Integers, Sequences, FiniteSets, TLC

(***************************************************************************)
(* Bounds of the model.                                                    *)
(***************************************************************************)
MaxLoads == 2        \* loadModel calls in one run of the loader
MaxPrims == 2        \* primitives of one decoded GLB/GLTF asset
MaxVerts == 2        \* vertices of one decoded PLY table
MaxDt    == 2        \* longest frame interval, in 1/Scale s
MaxUp    == 40       \* highest camera Y explored, in 1/Scale units
MaxDown  == 5        \* lowest camera Y explored is -MaxDown
MaxWalk  == 5        \* |x|, |z| explored around the initial pose
MaxModels == 3      \* longest model list explored
MaxTurn  == 1        \* quarter turns of bearing explored to either side

Undefined == 0 - 1

(***************************************************************************)
(* JavaScript helpers.                                                     *)
(***************************************************************************)
Min(a, b) == IF a < b THEN a ELSE b
Max(a, b) == IF a > b THEN a ELSE b
Abs(a) == IF a < 0 THEN 0 - a ELSE a

\* seq[i] for a 0-based JavaScript index: <<>> when it is undefined
At(seq, i) == IF i >= 0 /\ i < Len(seq) THEN << seq[i + 1] >> ELSE << >>

\* Math.round(num / den) for num >= 0, den > 0: halves go up
RoundDiv(num, den) == (2 * num + den) \div (2 * den)

NoArray == [type |-> "null", data |-> << >>]
F32(data) == [type |-> "Float32Array", data |-> data]
U8(data) == [type |-> "Uint8Array", data |-> data]
IsArray(a) == a.type # "null"
\* a || b on values that are a typed array or undefined
OrElse(a, b) == IF IsArray(a) THEN a ELSE b
Length(a) == Len(a.data)
\* a[i] for a 0-based index; 0 stands for the undefined of a read past the end
Elem(a, i) == IF i >= 0 /\ i < Len(a.data) THEN a.data[i + 1] ELSE 0
\* the conversion of a store into a Uint8Array element
ToUint8(v) == v % 256

(***************************************************************************)
(* Buffers.  A buffer is [byteLength]; its byte i holds i % 256, so that   *)
(* the elements of a view tell the offset they were read at.  A float is   *)
(* represented by the little-endian 32-bit pattern of its four bytes (the   *)
(* buffers of the model are shorter than 128 bytes).                       *)
(***************************************************************************)
BufferByte(i) == i % 256
BufferWord(o) == BufferByte(o) + 256 * BufferByte(o + 1)
                 + 65536 * BufferByte(o + 2) + 16777216 * BufferByte(o + 3)

\* new Float32Array(buffer, byteOffset, length): RangeError when the offset
\* is not a multiple of 4 or the range ends after the buffer
Float32View(buffer, byteOffset, length) ==
    IF byteOffset % 4 # 0 \/ byteOffset + 4 * length > buffer.byteLength
    THEN [threw |-> TRUE, array |-> NoArray]
    ELSE [threw |-> FALSE,
          array |-> F32([k \in 1..length |-> BufferWord(byteOffset + 4 * (k - 1))])]

\* new Uint8Array(buffer, byteOffset, length)
Uint8View(buffer, byteOffset, length) ==
    IF byteOffset + length > buffer.byteLength
    THEN [threw |-> TRUE, array |-> NoArray]
    ELSE [threw |-> FALSE,
          array |-> U8([k \in 1..length |-> BufferByte(byteOffset + k - 1)])]

(***************************************************************************)
(* extractMeshes.  A decoded GLB/GLTF is                                   *)
(*   [meshes  : the pre-parsed meshes, each a sequence of primitives       *)
(*              [POSITION, NORMAL, COLOR_0, TEXCOORD_0] of typed arrays,   *)
(*    json    : << >> or <<[meshes, accessors, bufferViews]>>, the meshes  *)
(*              sequences of primitives [POSITION, NORMAL, COLOR_0] of     *)
(*              accessor indices,                                          *)
(*    buffers : << >> or << the sequence of buffers >>].                   *)
(* An extraction returns [threw, meshes]: threw tells that an exception    *)
(* left the function.                                                      *)
(***************************************************************************)
Mesh(id, positions, normals, colors, texcoords, vertexCount) ==
    [id |-> id, positions |-> positions, normals |-> normals, colors |-> colors,
     texcoords |-> texcoords, vertexCount |-> vertexCount]

\* the pre-parsed strategy on one primitive: the meshes.push of lines 314-323
PreParsedPrimitive(primitive, meshIndex, primIndex) ==
    IF IsArray(primitive.POSITION)
    THEN << Mesh(<<"mesh", meshIndex, primIndex>>, primitive.POSITION,
                 primitive.NORMAL, primitive.COLOR_0, primitive.TEXCOORD_0,
                 Length(primitive.POSITION) \div 3) >>
    ELSE << >>

RECURSIVE PreParsedFrom(_, _, _)
PreParsedFrom(ms, m, p) ==
    IF m > Len(ms) THEN << >>
    ELSE IF p > Len(ms[m]) THEN PreParsedFrom(ms, m + 1, 1)
    ELSE PreParsedPrimitive(ms[m][p], m - 1, p - 1) \o PreParsedFrom(ms, m, p + 1)

\* a variant of the view that starts at the byte offset of the buffer view
ResolveFloat3AtView(json, buffers, index) ==
    LET accessor == At(json.accessors, index)
        bufferView == IF accessor = << >> THEN << >>
                      ELSE At(json.bufferViews, accessor[1].bufferView)
        buffer == IF bufferView = << >> THEN At(buffers, 0)
                  ELSE At(buffers, bufferView[1].buffer)
    IN  IF index = Undefined \/ accessor = << >> \/ bufferView = << >> \/ buffer = << >>
        THEN [found |-> FALSE, threw |-> FALSE, array |-> NoArray]
        ELSE LET v == Float32View(buffer[1], bufferView[1].byteOffset,
                                  accessor[1].count * 3)
             IN  [found |-> TRUE, threw |-> v.threw, array |-> v.array]

\* the typed view an accessor describes, as lines 338-352 build it for
\* positions and lines 358-369 for normals: [found, threw, array]
ResolveFloat3(json, buffers, index) ==
    LET accessor == At(json.accessors, index)
        bufferView == IF accessor = << >> THEN << >>
                      ELSE At(json.bufferViews, accessor[1].bufferView)
        buffer == IF bufferView = << >> THEN At(buffers, 0)
                  ELSE At(buffers, bufferView[1].buffer)
    IN  IF index = Undefined \/ accessor = << >> \/ bufferView = << >> \/ buffer = << >>
        THEN [found |-> FALSE, threw |-> FALSE, array |-> NoArray]
        ELSE LET v == Float32View(buffer[1],
                                  bufferView[1].byteOffset + accessor[1].byteOffset,
                                  accessor[1].count * 3)
             IN  [found |-> TRUE, threw |-> v.threw, array |-> v.array]

\* the colours of lines 374-396
ResolveColor(json, buffers, index) ==
    LET accessor == At(json.accessors, index)
        bufferView == IF accessor = << >> THEN << >>
                      ELSE At(json.bufferViews, accessor[1].bufferView)
        buffer == IF bufferView = << >> THEN At(buffers, 0)
                  ELSE At(buffers, bufferView[1].buffer)
    IN  IF index = Undefined \/ accessor = << >> \/ bufferView = << >> \/ buffer = << >>
        THEN [found |-> FALSE, threw |-> FALSE, array |-> NoArray]
        ELSE LET colorOffset == bufferView[1].byteOffset + accessor[1].byteOffset
                 componentCount == IF accessor[1].type = "VEC4" THEN 4 ELSE 3
                 v == IF accessor[1].componentType = 5121
                      THEN Uint8View(buffer[1], colorOffset,
                                     accessor[1].count * componentCount)
                      ELSE IF accessor[1].componentType = 5126
                      THEN Float32View(buffer[1], colorOffset,
                                       accessor[1].count * componentCount)
                      ELSE [threw |-> FALSE, array |-> NoArray]
             IN  [found |-> TRUE, threw |-> v.threw, array |-> v.array]

\* the raw strategy on one primitive (lines 335-409): [threw, meshes]
RawPrimitive(json, buffers, primitive, meshIndex, primIndex) ==
    LET pos == ResolveFloat3(json, buffers, primitive.POSITION)
        nrm == ResolveFloat3(json, buffers, primitive.NORMAL)
        col == ResolveColor(json, buffers, primitive.COLOR_0)
    IN  IF ~pos.found THEN [threw |-> FALSE, meshes |-> << >>]
        ELSE IF pos.threw \/ nrm.threw \/ col.threw
        THEN [threw |-> TRUE, meshes |-> << >>]
        ELSE [threw |-> FALSE,
              meshes |-> << Mesh(<<"mesh", meshIndex, primIndex>>, pos.array,
                                 nrm.array, col.array, NoArray,
                                 At(json.accessors, primitive.POSITION)[1].count) >>]

RECURSIVE RawFrom(_, _, _, _, _)
RawFrom(json, buffers, m, p, acc) ==
    IF m > Len(json.meshes) THEN [threw |-> FALSE, meshes |-> acc]
    ELSE IF p > Len(json.meshes[m]) THEN RawFrom(json, buffers, m + 1, 1, acc)
    ELSE LET r == RawPrimitive(json, buffers, json.meshes[m][p], m - 1, p - 1)
         IN  IF r.threw THEN [threw |-> TRUE, meshes |-> << >>]
             ELSE RawFrom(json, buffers, m, p + 1, acc \o r.meshes)

\* a variant of extractMeshes that runs the raw strategy whenever the json
\* and the buffers are there
ExtractMeshesBoth(gltf) ==
    IF gltf = << >> THEN [threw |-> FALSE, meshes |-> << >>]
    ELSE LET g == gltf[1]
             pre == IF Len(g.meshes) > 0 THEN PreParsedFrom(g.meshes, 1, 1) ELSE << >>
         IN  IF g.json # << >> /\ g.buffers # << >>
             THEN RawFrom(g.json[1], g.buffers[1], 1, 1, pre)
             ELSE [threw |-> FALSE, meshes |-> pre]

\* extractMeshes(gltf); gltf is << >> (null) or << the decoded asset >>
ExtractMeshes(gltf) ==
    IF gltf = << >> THEN [threw |-> FALSE, meshes |-> << >>]
    ELSE LET g == gltf[1]
             pre == IF Len(g.meshes) > 0 THEN PreParsedFrom(g.meshes, 1, 1) ELSE << >>
         IN  IF Len(pre) = 0 /\ g.json # << >> /\ g.buffers # << >>
             THEN RawFrom(g.json[1], g.buffers[1], 1, 1, << >>)
             ELSE [threw |-> FALSE, meshes |-> pre]

(***************************************************************************)
(* extractPLYMesh.  A decoded PLY is << >> or <<[attributes]>>, attributes *)
(* being << >> or << the table >>: a function from attribute names to the  *)
(* typed array of the attribute (its .value).  The numbers of a table are  *)
(* integers: channel samples 0 and 1 are the ends of the normalized range. *)
(***************************************************************************)
\* attributes.name?.value
Attr(attributes, name) ==
    IF name \in DOMAIN attributes THEN attributes[name] ELSE NoArray

\* attributes.a || attributes.b || ... , then ?.value
RECURSIVE FirstAttr(_, _)
FirstAttr(attributes, names) ==
    IF names = << >> THEN NoArray
    ELSE OrElse(Attr(attributes, Head(names)), FirstAttr(attributes, Tail(names)))

\* the interleaving loops of lines 156-160, 163-167, 192-196 and 243-247
Interleave(r, g, b, vertexCount) ==
    [k \in 1..(3 * vertexCount) |->
        LET i == (k - 1) \div 3
        IN  IF (k - 1) % 3 = 0 THEN Elem(r, i)
            ELSE IF (k - 1) % 3 = 1 THEN Elem(g, i) ELSE Elem(b, i)]

\* r[0] > 1 || g[0] > 1 || b[0] > 1; a missing first sample compares false
IsUint8(r, g, b) ==
    \/ (Length(r) > 0 /\ Elem(r, 0) > 1)
    \/ (Length(g) > 0 /\ Elem(g, 0) > 1)
    \/ (Length(b) > 0 /\ Elem(b, 0) > 1)

\* the colours of three separate channels (lines 145-170 and 179-198)
ChannelColors(r, g, b) ==
    IF IsArray(r) /\ IsArray(g) /\ IsArray(b)
    THEN LET vertexCount == Length(r)
             values == Interleave(r, g, b, vertexCount)
         IN  IF IsUint8(r, g, b)
             THEN U8([k \in 1..Len(values) |-> ToUint8(values[k])])
             ELSE F32(values)
    ELSE NoArray

\* SH_C0 = 0.28209479177387814 in millionths, and the unit it is counted in
SH_C0 == 282095
Million == 1000000

\* a variant that truncates instead of rounding (Math.floor for Math.round)
ShByteFloor(dc) ==
    LET c == Max(0, Min(Million, (Million \div 2) + SH_C0 * dc))
    IN  (c * 255) \div Million

\* Math.round(Math.max(0, Math.min(1, 0.5 + SH_C0 * dc)) * 255)
ShByte(dc) ==
    LET c == Max(0, Min(Million, (Million \div 2) + SH_C0 * dc))
    IN  RoundDiv(c * 255, Million)

\* the colours of the spherical-harmonics DC components (lines 207-229)
ShColors(dc0, dc1, dc2) ==
    IF IsArray(dc0) /\ IsArray(dc1) /\ IsArray(dc2)
    THEN LET vertexCount == Length(dc0)
             values == Interleave(dc0, dc1, dc2, vertexCount)
         IN  U8([k \in 1..Len(values) |-> ToUint8(ShByte(values[k]))])
    ELSE NoArray

\* a variant that tries the spherical-harmonics rule before the others
PLYColorsShFirst(attributes) ==
    LET c1 == Attr(attributes, "COLOR_0")
        c2 == ChannelColors(FirstAttr(attributes, <<"red", "Red", "RED", "r", "R">>),
                            FirstAttr(attributes, <<"green", "Green", "GREEN", "g", "G">>),
                            FirstAttr(attributes, <<"blue", "Blue", "BLUE", "b", "B">>))
        c3 == ChannelColors(FirstAttr(attributes, <<"diffuse_red", "diffuseRed">>),
                            FirstAttr(attributes, <<"diffuse_green", "diffuseGreen">>),
                            FirstAttr(attributes, <<"diffuse_blue", "diffuseBlue">>))
        c4 == ShColors(Attr(attributes, "f_dc_0"), Attr(attributes, "f_dc_1"),
                       Attr(attributes, "f_dc_2"))
    IN  OrElse(c4, OrElse(c1, OrElse(c2, c3)))

\* lines 136-230: the first rule that yields colours
PLYColors(attributes) ==
    LET c1 == Attr(attributes, "COLOR_0")
        c2 == ChannelColors(FirstAttr(attributes, <<"red", "Red", "RED", "r", "R">>),
                            FirstAttr(attributes, <<"green", "Green", "GREEN", "g", "G">>),
                            FirstAttr(attributes, <<"blue", "Blue", "BLUE", "b", "B">>))
        c3 == ChannelColors(FirstAttr(attributes, <<"diffuse_red", "diffuseRed">>),
                            FirstAttr(attributes, <<"diffuse_green", "diffuseGreen">>),
                            FirstAttr(attributes, <<"diffuse_blue", "diffuseBlue">>))
        c4 == ShColors(Attr(attributes, "f_dc_0"), Attr(attributes, "f_dc_1"),
                       Attr(attributes, "f_dc_2"))
    IN  OrElse(c1, OrElse(c2, OrElse(c3, c4)))

\* the number of the rule that yielded the colours (lines 136, 139, 174, 202):
\* each rule is tried only while colors is still falsy; 0 when none did
ColorRule(attributes) ==
    IF IsArray(Attr(attributes, "COLOR_0")) THEN 1
    ELSE IF IsArray(ChannelColors(
                FirstAttr(attributes, <<"red", "Red", "RED", "r", "R">>),
                FirstAttr(attributes, <<"green", "Green", "GREEN", "g", "G">>),
                FirstAttr(attributes, <<"blue", "Blue", "BLUE", "b", "B">>))) THEN 2
    ELSE IF IsArray(ChannelColors(
                FirstAttr(attributes, <<"diffuse_red", "diffuseRed">>),
                FirstAttr(attributes, <<"diffuse_green", "diffuseGreen">>),
                FirstAttr(attributes, <<"diffuse_blue", "diffuseBlue">>))) THEN 3
    ELSE IF IsArray(ShColors(Attr(attributes, "f_dc_0"), Attr(attributes, "f_dc_1"),
                             Attr(attributes, "f_dc_2"))) THEN 4
    ELSE 0

\* lines 233-248: normals = NORMAL || nx, interleaved only when that is falsy
PLYNormals(attributes) ==
    LET normals == OrElse(Attr(attributes, "NORMAL"), Attr(attributes, "nx"))
    IN  IF ~IsArray(normals) /\ IsArray(Attr(attributes, "nx"))
           /\ IsArray(Attr(attributes, "ny")) /\ IsArray(Attr(attributes, "nz"))
        THEN F32(Interleave(Attr(attributes, "nx"), Attr(attributes, "ny"),
                            Attr(attributes, "nz"), Length(Attr(attributes, "nx"))))
        ELSE normals

\* lines 260-265 and 269-274: a new Float32Array with Y and Z negated
FlipYZ(a) ==
    F32([k \in 1..Length(a) |-> IF (k - 1) % 3 = 0 THEN a.data[k] ELSE 0 - a.data[k]])

\* extractPLYMesh(plyData): [threw, meshes]
ExtractPLYMesh(plyData) ==
    IF plyData = << >> \/ plyData[1].attributes = << >>
    THEN [threw |-> FALSE, meshes |-> << >>]
    ELSE LET attributes == plyData[1].attributes[1]
             positions == Attr(attributes, "POSITION")
             colors == PLYColors(attributes)
             normalData == PLYNormals(attributes)
             isGaussianSplatting == "f_dc_0" \in DOMAIN attributes
             finalPositions == IF isGaussianSplatting THEN FlipYZ(positions)
                               ELSE positions
             finalNormals == IF isGaussianSplatting /\ IsArray(normalData)
                             THEN FlipYZ(normalData) ELSE normalData
         IN  IF ~IsArray(positions) THEN [threw |-> FALSE, meshes |-> << >>]
             ELSE [threw |-> FALSE,
                   meshes |-> << Mesh(<<"ply-mesh", 0>>, finalPositions, finalNormals,
                                      colors, NoArray, Length(positions) \div 3) >>]

(***************************************************************************)
(* The objects behind the end of extractPLYMesh (lines 254-287).  A heap   *)
(* maps the name of the variable that holds an array to the array's        *)
(* contents; two variables that hold the same object share the name.       *)
(***************************************************************************)
NoObjects == [heap |-> [r \in {} |-> << >>], positions |-> "null", normals |-> "null"]

\* new Float32Array(n), held by ref: n zeros
Allocate(heap, ref, n) == (ref :> [k \in 1..n |-> 0]) @@ heap

\* the loops of lines 261-265 and 270-274, reading src[i] and writing dst[i]
FlipLoop(heap, src, dst) ==
    [heap EXCEPT ![dst] = [k \in 1..Len(heap[src]) |->
                             IF (k - 1) % 3 = 0 THEN heap[src][k] ELSE 0 - heap[src][k]]]

\* a variant that negates Y and Z in the decoded array itself
FlippedInPlace(heap, src, dst) ==
    [heap |-> FlipLoop(heap, src, src), ref |-> src]

\* lines 260-265 and 269-274: allocate dst, fill it from src: [heap, ref]
FlippedCopy(heap, src, dst) ==
    [heap |-> FlipLoop(Allocate(heap, dst, Len(heap[src])), src, dst), ref |-> dst]

\* the heap after extractPLYMesh and the objects the mesh refers to
PLYObjects(plyData) ==
    IF plyData = << >> \/ plyData[1].attributes = << >>
       \/ ~IsArray(Attr(plyData[1].attributes[1], "POSITION"))
    THEN NoObjects
    ELSE LET attributes == plyData[1].attributes[1]
             normalData == PLYNormals(attributes)
             heap0 == ("positions" :> Attr(attributes, "POSITION").data)
                      @@ (IF IsArray(normalData) THEN "normalData" :> normalData.data
                          ELSE [r \in {} |-> << >>])
             isGaussianSplatting == "f_dc_0" \in DOMAIN attributes
             p == IF isGaussianSplatting
                  THEN FlippedCopy(heap0, "positions", "finalPositions")
                  ELSE [heap |-> heap0, ref |-> "positions"]
             n == IF isGaussianSplatting /\ IsArray(normalData)
                  THEN FlippedCopy(p.heap, "normalData", "finalNormals")
                  ELSE [heap |-> p.heap,
                        ref |-> IF IsArray(normalData) THEN "normalData" ELSE "null"]
         IN  [heap |-> n.heap, positions |-> p.ref, normals |-> n.ref]

(***************************************************************************)
(* State.                                                                  *)
(***************************************************************************)
VARIABLES
    \* useModelLoader: the five useState cells
    modelUrl, modelData, loading, error, progress,
    \* the loadModel calls made so far, in order: [url, isPLY, status, data].
    \* status is "inflight" until load(...) settles, then "published" (it
    \* resolved and setModelData ran), "threw" (it resolved and the extraction
    \* threw) or "rejected"; data is what load(...) resolved with
    loads,
    \* useFirstPersonControls: useState cells
    viewState, isPointerLocked, cameraMode,
    \* useFirstPersonControls: refs
    keysPressed, canvasRef, velocity, onGround,
    \* what the effects' closures captured at the commit that created them:
    \* animate reads bearing and position[1] of its viewState and cameraMode,
    \* handleMouseMove reads isPointerLocked
    animateClosure, mouseMoveClosure,
    \* the document: the element holding the pointer lock, and whether a
    \* pointerlockchange event is queued for delivery
    pointerLockElement, lockChangeQueued,
    \* the upload server: the regular files on its disk (paths), the blobs
    \* of the blob store (pathnames below models/), and the last response
    disk, blobs, response,
    \* useModelManifest: the models cell
    models,
    \* the handler that ran last and what it observed (history, not program state)
    ev

loaderVars == <<modelUrl, modelData, loading, error, progress, loads>>
navVars == <<viewState, isPointerLocked, cameraMode, keysPressed, canvasRef,
             velocity, onGround, animateClosure, mouseMoveClosure,
             pointerLockElement, lockChangeQueued>>
storeVars == <<disk, blobs, response, models>>
vars == <<loaderVars, navVars, storeVars, ev>>

\* wrote tells whether animate called setViewState (line 195)
Event(op, load, branch, collided) ==
    [op |-> op, load |-> load, branch |-> branch, collided |-> collided,
     wrote |-> FALSE]

(***************************************************************************)
(* useModelLoader.                                                         *)
(***************************************************************************)
\* a URL is [http, path, ext]: whether it starts with 'http', and its
\* extension as written
Urls == { [http |-> FALSE, path |-> "/models/a", ext |-> "glb"],
          [http |-> FALSE, path |-> "/models/b", ext |-> "ply"],
          [http |-> TRUE, path |-> "//host/c", ext |-> "PLY"] }

\* url.startsWith('http') ? url : `${process.env.PUBLIC_URL}${url}`
FullUrl(url) ==
    [prefix |-> IF url.http THEN "" ELSE "PUBLIC_URL", path |-> url.path, ext |-> url.ext]

ToLowerCase(ext) == IF ext = "PLY" THEN "ply" ELSE ext

\* fullUrl.toLowerCase().endsWith('.ply')
IsPLY(fullUrl) == ToLowerCase(fullUrl.ext) = "ply"

LoaderInit ==
    /\ modelUrl = << >>
    /\ modelData = << >>
    /\ loading = FALSE
    /\ error = << >>
    /\ progress = 0
    /\ loads = << >>

\* loadModel(url) up to its await; url is << >> (falsy) or << a URL >>
LoadModel(url) ==
    /\ ev' = Event("loadModel", IF url = << >> THEN 0 ELSE Len(loads) + 1, "", FALSE)
    /\ IF url = << >>
       THEN UNCHANGED loaderVars
       ELSE /\ loading' = TRUE
            /\ error' = << >>
            /\ progress' = 0
            /\ modelUrl' = url
            /\ loads' = Append(loads, [url |-> FullUrl(url[1]),
                                       isPLY |-> IsPLY(FullUrl(url[1])),
                                       status |-> "inflight",
                                       data |-> << >>])
            /\ UNCHANGED modelData
    /\ UNCHANGED <<navVars, storeVars>>

\* the onProgress callback of load i
OnProgress(i, loaded, total) ==
    /\ i \in 1..Len(loads)
    /\ loads[i].status = "inflight"
    /\ ev' = Event("onProgress", i, "", FALSE)
    /\ progress' = IF total # 0 THEN RoundDiv(loaded * 100, total) ELSE progress
    /\ UNCHANGED <<modelUrl, modelData, loading, error, loads, navVars, storeVars>>

\* load i resolves with data: the rest of the try block, catch and finally.
\* The field load of modelData is history: the call that published it; the
\* field objects tells which array objects the PLY mesh refers to.
LoadResolved(i, data) ==
    /\ i \in 1..Len(loads)
    /\ loads[i].status = "inflight"
    /\ ev' = Event("resolved", i, "", FALSE)
    /\ LET r == IF loads[i].isPLY THEN ExtractPLYMesh(data) ELSE ExtractMeshes(data)
       IN  IF r.threw
           THEN /\ error' = << "RangeError" >>
                /\ UNCHANGED <<modelData, progress>>
           ELSE /\ modelData' = << [gltf |-> IF loads[i].isPLY THEN << >> ELSE data,
                                    url |-> loads[i].url,
                                    meshes |-> r.meshes,
                                    isPLY |-> loads[i].isPLY,
                                    objects |-> IF loads[i].isPLY THEN PLYObjects(data)
                                                ELSE NoObjects,
                                    load |-> i] >>
                /\ progress' = 100
                /\ UNCHANGED error
    /\ loading' = FALSE
    /\ loads' = [loads EXCEPT
                   ![i].status = IF (IF loads[i].isPLY THEN ExtractPLYMesh(data)
                                     ELSE ExtractMeshes(data)).threw
                                 THEN "threw" ELSE "published",
                   ![i].data = data]
    /\ UNCHANGED <<modelUrl, navVars, storeVars>>

\* a variant of the rejection that also drops the model shown
LoadRejectedClears(i) ==
    /\ i \in 1..Len(loads)
    /\ loads[i].status = "inflight"
    /\ ev' = Event("rejected", i, "", FALSE)
    /\ error' = << "Failed to load model" >>
    /\ loading' = FALSE
    /\ modelData' = << >>
    /\ loads' = [loads EXCEPT ![i].status = "rejected"]
    /\ UNCHANGED <<modelUrl, progress, navVars, storeVars>>

\* load i rejects: catch and finally
LoadRejected(i) ==
    /\ i \in 1..Len(loads)
    /\ loads[i].status = "inflight"
    /\ ev' = Event("rejected", i, "", FALSE)
    /\ error' = << "Failed to load model" >>
    /\ loading' = FALSE
    /\ loads' = [loads EXCEPT ![i].status = "rejected"]
    /\ UNCHANGED <<modelUrl, modelData, progress, navVars, storeVars>>

ClearModel ==
    /\ ev' = Event("clearModel", 0, "", FALSE)
    /\ modelData' = << >>
    /\ modelUrl' = << >>
    /\ error' = << >>
    /\ progress' = 0
    /\ UNCHANGED <<loading, loads, navVars, storeVars>>

(***************************************************************************)
(* What the loaders can resolve with.                                      *)
(***************************************************************************)
SeqsUpTo(S, n) == UNION { [1..k -> S] : k \in 0..n }
Ramp(first, len) == [k \in 1..len |-> first + (k - 1)]
NoAttributes == [n \in {} |-> NoArray]

\* One buffer of 40 bytes, two views on it, and accessors of every kind the
\* raw strategy distinguishes; accessor indices are 0-based.
SampleBuffers == << [byteLength |-> 40] >>
SampleBufferViews == << [buffer |-> 0, byteOffset |-> 0],
                        [buffer |-> 0, byteOffset |-> 12] >>
Accessor(bufferView, byteOffset, count, componentType, type) ==
    [bufferView |-> bufferView, byteOffset |-> byteOffset, count |-> count,
     componentType |-> componentType, type |-> type]
SampleAccessors ==
    << Accessor(0, 0, 1, 5126, "VEC3"),    \* 0: bytes 0..11, one vertex
       Accessor(1, 0, 2, 5126, "VEC3"),    \* 1: bytes 12..35, two vertices
       Accessor(1, 12, 2, 5126, "VEC3"),   \* 2: bytes 24..47, past the buffer
       Accessor(1, 24, 1, 5121, "VEC4"),   \* 3: bytes 36..39, one RGBA colour
       Accessor(0, 0, 1, 5123, "VEC3"),    \* 4: a component type not handled
       Accessor(0, 4, 1, 5126, "VEC3"),    \* 5: bytes 4..15, three floats
       Accessor(1, 20, 1, 5126, "VEC3"),   \* 6: bytes 32..43, past the buffer
       Accessor(1, 4, 1, 5126, "VEC3") >>  \* 7: bytes 16..27, one vertex
\* The attributes of a primitive have the count of its POSITION.  NORMAL and
\* COLOR_0 vary only where POSITION resolves: they are not read otherwise.
RawPrims ==
    [POSITION : {Undefined, 0, 1, 2, 5, 7}, NORMAL : {Undefined}, COLOR_0 : {Undefined}]
    \cup [POSITION : {0}, NORMAL : {Undefined, 5, 6}, COLOR_0 : {Undefined, 3, 4, 5, 6}]
    \cup [POSITION : {1}, NORMAL : {Undefined, 1, 2}, COLOR_0 : {Undefined, 1, 2}]
RawJson(meshes) ==
    [meshes |-> meshes, accessors |-> SampleAccessors, bufferViews |-> SampleBufferViews]
\* the primitives in one mesh, or one mesh per primitive
MeshSplits(prims) == { << prims >>, [k \in 1..Len(prims) |-> << prims[k] >>] }
RawAssets ==
    { [meshes |-> << >>, json |-> << RawJson(ms) >>, buffers |-> << SampleBuffers >>] :
        ms \in UNION { MeshSplits(prims) : prims \in SeqsUpTo(RawPrims, MaxPrims) } }

\* pre-parsed primitives of n vertices, and some without positions
PrePrimsOf(n) ==
    [POSITION : {F32(Ramp(1, 3 * n))},
     NORMAL : {NoArray, F32(Ramp(11, 3 * n))},
     COLOR_0 : {NoArray, U8(Ramp(1, 4 * n))},
     TEXCOORD_0 : {NoArray, F32(Ramp(21, 2 * n))}]
PrePrims ==
    PrePrimsOf(1) \cup PrePrimsOf(2)
    \cup [POSITION : {NoArray}, NORMAL : {NoArray, F32(Ramp(11, 3))},
          COLOR_0 : {NoArray}, TEXCOORD_0 : {NoArray}]
PreAssets ==
    { [meshes |-> << prims >>, json |-> js, buffers |-> << SampleBuffers >>] :
        prims \in SeqsUpTo(PrePrims, MaxPrims),
        js \in { << >>, << RawJson(<< << [POSITION |-> 0, NORMAL |-> Undefined,
                                          COLOR_0 |-> Undefined] >> >>) >> } }
GLTFResults == { << >> } \cup { << g >> : g \in RawAssets \cup PreAssets }

\* PLY tables of n vertices
ChannelSamples == {0, 1, 200}
DcSamples == {0 - 1000, 0 - 1, 0, 1000}
Channel(sample, n) == IF sample > 1 THEN U8(Ramp(sample, n)) ELSE F32(Ramp(sample, n))
PositionParts(n) == { NoAttributes, "POSITION" :> F32(Ramp(1, 3 * n)) }
SeparateNormals(n) ==
    ("nx" :> F32(Ramp(100, n))) @@ ("ny" :> F32(Ramp(200, n))) @@ ("nz" :> F32(Ramp(300, n)))
NormalParts(n) ==
    { NoAttributes, "NORMAL" :> F32(Ramp(11, 3 * n)), SeparateNormals(n),
      ("NORMAL" :> F32(Ramp(11, 3 * n))) @@ SeparateNormals(n) }
Channels(names, samples, n) ==
    (names[1] :> Channel(samples[1], n)) @@ (names[2] :> Channel(samples[2], n))
        @@ (names[3] :> Channel(samples[3], n))
SplatChannels(samples, n) ==
    ("f_dc_0" :> F32(Ramp(samples[1], n))) @@ ("f_dc_1" :> F32(Ramp(samples[2], n)))
        @@ ("f_dc_2" :> F32(Ramp(samples[3], n)))
ColorParts(n) ==
    { NoAttributes, "COLOR_0" :> U8(Ramp(1, 4 * n)) }
    \cup { Channels(names, samples, n) :
             names \in { <<"red", "green", "blue">>, <<"r", "g", "b">>,
                         <<"diffuse_red", "diffuse_green", "diffuse_blue">> },
             samples \in ChannelSamples \X ChannelSamples \X ChannelSamples }
    \cup { SplatChannels(samples, n) : samples \in DcSamples \X DcSamples \X DcSamples }
    \cup { Channels(<<"red", "green", "blue">>, <<c, c, c>>, n)
             @@ SplatChannels(<<0, 0, 0>>, n) : c \in ChannelSamples }
    \cup { ("COLOR_0" :> U8(Ramp(1, 4 * n)))
             @@ Channels(<<"red", "green", "blue">>, <<200, 200, 200>>, n),
           Channels(<<"r", "g", "b">>, <<200, 200, 200>>, n)
             @@ Channels(<<"diffuse_red", "diffuse_green", "diffuse_blue">>, <<1, 1, 1>>, n),
           Channels(<<"diffuse_red", "diffuse_green", "diffuse_blue">>, <<1, 0, 200>>, n)
             @@ SplatChannels(<<0, 0, 0>>, n) }
PLYTables ==
    UNION { { p @@ c @@ nrm : p \in PositionParts(n), c \in ColorParts(n),
                              nrm \in NormalParts(n) } : n \in 0..MaxVerts }
PLYResults ==
    { << >>, << [attributes |-> << >>] >> }
    \cup { << [attributes |-> << t >>] >> : t \in PLYTables }

\* a few results of each kind, for the runs with several loads
FewGLTFResults ==
    { << [meshes |-> << >>, json |-> << RawJson(ms) >>, buffers |-> << SampleBuffers >>] >> :
        ms \in { << >>,
                 << << [POSITION |-> 0, NORMAL |-> Undefined, COLOR_0 |-> 3] >> >>,
                 << << [POSITION |-> 2, NORMAL |-> Undefined, COLOR_0 |-> Undefined] >> >> } }
FewPLYResults ==
    { << [attributes |-> << t >>] >> :
        t \in { "POSITION" :> F32(Ramp(1, 3)), SeparateNormals(1) } }
Results(isPLY) == IF isPLY THEN PLYResults ELSE GLTFResults
FewResults(isPLY) == IF isPLY THEN FewPLYResults ELSE FewGLTFResults

\* progress events as (loaded, total)
ProgressEvents == { <<0, 0>>, <<1, 2>>, <<2, 2>> }

(***************************************************************************)
(* useFirstPersonControls.  Positions are in 1/Scale units, frame          *)
(* intervals in 1/Scale s, speeds in units per second, angles in 1/100     *)
(* degree; with Scale = 10 the products below are exact.                   *)
(***************************************************************************)
Scale == 10
MOVE_SPEED == 5
MOUSE_SENSITIVITY == 15
VERTICAL_SPEED == 3
GRAVITY == -20
JUMP_VELOCITY == 8
GROUND_LEVEL == 15
PITCH_LIMIT == 8900
QuarterTurn == 9000

KeyCodes == {"KeyW", "KeyA", "KeyS", "KeyD", "Space", "ShiftLeft", "ShiftRight", "Escape"}

\* the initialState of the caller: none (the defaults of lines 17-19), or
\* the pose App passes
InitialViewStates ==
    { [position |-> <<0, 15, 70>>, bearing |-> 0, pitch |-> 0],
      [position |-> <<25, 0, 20>>, bearing |-> 0, pitch |-> 0] }

\* Math.sin and Math.cos of a bearing that is a whole number of quarter
\* turns (the exact values; the floats differ from 0 by less than 1e-15)
Sin(bearing) ==
    LET q == (bearing \div QuarterTurn) % 4
    IN  IF q = 1 THEN 1 ELSE IF q = 3 THEN 0 - 1 ELSE 0
Cos(bearing) ==
    LET q == (bearing \div QuarterTurn) % 4
    IN  IF q = 0 THEN 1 ELSE IF q = 2 THEN 0 - 1 ELSE 0

\* the part of the space the model explores
InBox(position) ==
    /\ \E v \in InitialViewStates :
          /\ Abs(position[1] - v.position[1]) <= MaxWalk
          /\ Abs(position[3] - v.position[3]) <= MaxWalk
    /\ position[2] >= 0 - MaxDown
    /\ position[2] <= MaxUp

\* the variables of a render that animate reads (lines 124, 160 and 185)
Captured(view, mode) ==
    [bearing |-> view.bearing, y |-> view.position[2], cameraMode |-> mode]

NavInit ==
    /\ viewState \in InitialViewStates
    /\ isPointerLocked = FALSE
    /\ cameraMode = "free"
    /\ keysPressed = [k \in KeyCodes |-> FALSE]
    /\ canvasRef = "null"
    /\ velocity = <<0, 0, 0>>
    /\ onGround = TRUE
    /\ animateClosure = Captured(viewState, cameraMode)
    /\ mouseMoveClosure = isPointerLocked
    /\ pointerLockElement = "null"
    /\ lockChangeQueued = FALSE

\* poses a caller may pass as initialState or to the returned setViewState:
\* the hook takes position, bearing and pitch as they are given
CallerViewStates ==
    InitialViewStates
    \cup { [position |-> <<0, 15, 70>>, bearing |-> 0, pitch |-> 12000],
           [position |-> <<0, 15, 70>>, bearing |-> 0, pitch |-> 0 - 9000] }

\* the state after useFirstPersonControls(initialState), any initialState
PoseInit ==
    /\ viewState \in CallerViewStates
    /\ isPointerLocked = FALSE
    /\ cameraMode = "free"
    /\ keysPressed = [k \in KeyCodes |-> FALSE]
    /\ canvasRef = "null"
    /\ velocity = <<0, 0, 0>>
    /\ onGround = TRUE
    /\ animateClosure = Captured(viewState, cameraMode)
    /\ mouseMoveClosure = isPointerLocked
    /\ pointerLockElement = "null"
    /\ lockChangeQueued = FALSE

\* the setViewState returned by the hook (line 233), called with a pose
SetViewState(view) ==
    /\ ev' = Event("setViewState", 0, "", FALSE)
    /\ viewState' = view
    /\ UNCHANGED <<isPointerLocked, cameraMode, keysPressed, canvasRef, velocity,
                   onGround, animateClosure, mouseMoveClosure, pointerLockElement,
                   lockChangeQueued, loaderVars, storeVars>>

SetCanvasElement ==
    /\ ev' = Event("setCanvasElement", 0, "", FALSE)
    /\ canvasRef' = "canvas"
    /\ UNCHANGED <<viewState, isPointerLocked, cameraMode, keysPressed, velocity,
                   onGround, animateClosure, mouseMoveClosure, pointerLockElement,
                   lockChangeQueued, loaderVars, storeVars>>

\* requestPointerLock(), granted by the browser
RequestPointerLock ==
    /\ ev' = Event("requestPointerLock", 0, "", FALSE)
    /\ IF canvasRef = "canvas" /\ pointerLockElement = "null"
       THEN pointerLockElement' = "canvas" /\ lockChangeQueued' = TRUE
       ELSE UNCHANGED <<pointerLockElement, lockChangeQueued>>
    /\ UNCHANGED <<viewState, isPointerLocked, cameraMode, keysPressed, canvasRef,
                   velocity, onGround, animateClosure, mouseMoveClosure, loaderVars, storeVars>>

\* document.exitPointerLock(): the effect of the call on the document
ExitLock ==
    IF pointerLockElement # "null"
    THEN pointerLockElement' = "null" /\ lockChangeQueued' = TRUE
    ELSE UNCHANGED <<pointerLockElement, lockChangeQueued>>

ExitPointerLock ==
    /\ ev' = Event("exitPointerLock", 0, "", FALSE)
    /\ ExitLock
    /\ UNCHANGED <<viewState, isPointerLocked, cameraMode, keysPressed, canvasRef,
                   velocity, onGround, animateClosure, mouseMoveClosure, loaderVars, storeVars>>

\* a variant that also releases the held keys
ToggleReleasesKeys ==
    /\ ev' = Event("toggleCameraMode", 0, "", FALSE)
    /\ cameraMode' = IF cameraMode = "free" THEN "physics" ELSE "free"
    /\ velocity' = <<0, 0, 0>>
    /\ onGround' = TRUE
    /\ keysPressed' = [k \in KeyCodes |-> FALSE]
    /\ UNCHANGED <<viewState, isPointerLocked, canvasRef, animateClosure,
                   mouseMoveClosure, pointerLockElement, lockChangeQueued, loaderVars,
                   storeVars>>

\* a variant that switches the mode and keeps velocityRef and onGroundRef
ToggleKeepsMomentum ==
    /\ ev' = Event("toggleCameraMode", 0, "", FALSE)
    /\ cameraMode' = IF cameraMode = "free" THEN "physics" ELSE "free"
    /\ UNCHANGED <<velocity, onGround, viewState, isPointerLocked, keysPressed,
                   canvasRef, animateClosure, mouseMoveClosure, pointerLockElement,
                   lockChangeQueued, loaderVars, storeVars>>

ToggleCameraMode ==
    /\ ev' = Event("toggleCameraMode", 0, "", FALSE)
    /\ cameraMode' = IF cameraMode = "free" THEN "physics" ELSE "free"
    /\ velocity' = <<0, 0, 0>>
    /\ onGround' = TRUE
    /\ UNCHANGED <<viewState, isPointerLocked, keysPressed, canvasRef, animateClosure,
                   mouseMoveClosure, pointerLockElement, lockChangeQueued, loaderVars, storeVars>>

HandleKeyDown(code) ==
    /\ ev' = Event("keydown", 0, "", FALSE)
    /\ keysPressed' = [keysPressed EXCEPT ![code] = TRUE]
    /\ IF code = "Escape" THEN ExitLock
       ELSE UNCHANGED <<pointerLockElement, lockChangeQueued>>
    /\ UNCHANGED <<viewState, isPointerLocked, cameraMode, canvasRef, velocity,
                   onGround, animateClosure, mouseMoveClosure, loaderVars, storeVars>>

HandleKeyUp(code) ==
    /\ ev' = Event("keyup", 0, "", FALSE)
    /\ keysPressed' = [keysPressed EXCEPT ![code] = FALSE]
    /\ UNCHANGED <<viewState, isPointerLocked, cameraMode, canvasRef, velocity,
                   onGround, animateClosure, mouseMoveClosure, pointerLockElement,
                   lockChangeQueued, loaderVars, storeVars>>

\* Math.max(-89, Math.min(89, pitch))
ClampPitch(pitch) == Max(0 - PITCH_LIMIT, Min(PITCH_LIMIT, pitch))

\* the listener registered by the last commit of the mouse effect
HandleMouseMove(movementX, movementY) ==
    /\ ev' = Event("mousemove", 0, "", FALSE)
    /\ IF ~mouseMoveClosure
       THEN UNCHANGED viewState
       ELSE viewState' =
              [viewState EXCEPT
                 !.bearing = viewState.bearing + movementX * MOUSE_SENSITIVITY,
                 !.pitch = ClampPitch(viewState.pitch - movementY * MOUSE_SENSITIVITY)]
    /\ UNCHANGED <<isPointerLocked, cameraMode, keysPressed, canvasRef, velocity,
                   onGround, animateClosure, mouseMoveClosure, pointerLockElement,
                   lockChangeQueued, loaderVars, storeVars>>

\* delivery of a queued pointerlockchange event
HandlePointerLockChange ==
    /\ lockChangeQueued
    /\ ev' = Event("pointerlockchange", 0, "", FALSE)
    /\ isPointerLocked' = (pointerLockElement = canvasRef)
    /\ lockChangeQueued' = FALSE
    /\ UNCHANGED <<viewState, cameraMode, keysPressed, canvasRef, velocity, onGround,
                   animateClosure, mouseMoveClosure, pointerLockElement, loaderVars, storeVars>>

\* React commits the render that follows a change of cameraMode or of
\* isPointerLocked: the effects whose dependency changed are run again, and
\* their new closures see the state of that render
CommitEffects ==
    /\ animateClosure.cameraMode # cameraMode \/ mouseMoveClosure # isPointerLocked
    /\ ev' = Event("commit", 0, "", FALSE)
    /\ animateClosure' = IF animateClosure.cameraMode # cameraMode
                         THEN Captured(viewState, cameraMode)
                         ELSE animateClosure
    /\ mouseMoveClosure' = isPointerLocked
    /\ UNCHANGED <<viewState, isPointerLocked, cameraMode, keysPressed, canvasRef,
                   velocity, onGround, pointerLockElement, lockChangeQueued, loaderVars, storeVars>>

\* a variant of the WASD sums in which S and A are else-branches of W and D
PlanarElseIf(keys, bearing, speed) ==
    LET forward == <<Sin(bearing), 0, 0 - Cos(bearing)>>
        right == <<Cos(bearing), 0, Sin(bearing)>>
    IN  [dx |-> (IF keys["KeyW"] THEN forward[1] * speed
                 ELSE IF keys["KeyS"] THEN 0 - forward[1] * speed ELSE 0)
                + (IF keys["KeyD"] THEN right[1] * speed
                   ELSE IF keys["KeyA"] THEN 0 - right[1] * speed ELSE 0),
         dz |-> (IF keys["KeyW"] THEN forward[3] * speed
                 ELSE IF keys["KeyS"] THEN 0 - forward[3] * speed ELSE 0)
                + (IF keys["KeyD"] THEN right[3] * speed
                   ELSE IF keys["KeyA"] THEN 0 - right[3] * speed ELSE 0)]

\* lines 126-158: dx and dz, summed in the order W, S, A, D.  On floats each
\* partial sum below is exact when a key and its opposite are both held:
\* (0 + a) - a = 0 and (0 - r) + r = 0.
Planar(keys, bearing, speed) ==
    LET forward == <<Sin(bearing), 0, 0 - Cos(bearing)>>
        right == <<Cos(bearing), 0, Sin(bearing)>>
    IN  [dx |-> (IF keys["KeyW"] THEN forward[1] * speed ELSE 0)
                - (IF keys["KeyS"] THEN forward[1] * speed ELSE 0)
                - (IF keys["KeyA"] THEN right[1] * speed ELSE 0)
                + (IF keys["KeyD"] THEN right[1] * speed ELSE 0),
         dz |-> (IF keys["KeyW"] THEN forward[3] * speed ELSE 0)
                - (IF keys["KeyS"] THEN forward[3] * speed ELSE 0)
                - (IF keys["KeyA"] THEN right[3] * speed ELSE 0)
                + (IF keys["KeyD"] THEN right[3] * speed ELSE 0)]

\* a variant of the jump test that does not look at onGroundRef
JumpsInAir(keys, grounded) == keys["Space"]

\* line 176: keys['Space'] && onGroundRef.current
Jumps(keys, grounded) == keys["Space"] /\ grounded

\* one call of animate by the frame loop of the last commit of the animation
\* effect, dt/Scale seconds after the previous one (lines 118-206)
Animate(dt) ==
    LET keys == keysPressed
        bearing == animateClosure.bearing
        positionY == animateClosure.y
        speed == MOVE_SPEED * dt
        dx == Planar(keys, bearing, speed).dx
        dz == Planar(keys, bearing, speed).dz
        free == animateClosure.cameraMode = "free"
        dyFree == (IF keys["Space"] THEN VERTICAL_SPEED * dt ELSE 0)
                  - (IF keys["ShiftLeft"] \/ keys["ShiftRight"]
                     THEN VERTICAL_SPEED * dt ELSE 0)
        fallen == velocity[2] + (GRAVITY * dt) \div Scale
        jump == Jumps(keys, onGround)
        vy == IF jump THEN JUMP_VELOCITY ELSE fallen
        newY == positionY + vy * dt
        collided == ~free /\ newY <= GROUND_LEVEL
        dy == IF free THEN dyFree
              ELSE IF collided THEN GROUND_LEVEL - positionY ELSE vy * dt
        moved == <<viewState.position[1] + dx, viewState.position[2] + dy,
                   viewState.position[3] + dz>>
    IN  /\ dt \in 1..MaxDt
        /\ InBox(moved)
        /\ ev' = [Event("animate", 0, animateClosure.cameraMode, collided)
                    EXCEPT !.wrote = (dx # 0 \/ dy # 0 \/ dz # 0)]
        /\ IF free
           THEN UNCHANGED <<velocity, onGround>>
           ELSE /\ velocity' = [velocity EXCEPT ![2] = IF collided THEN 0 ELSE vy]
                /\ onGround' = IF collided THEN TRUE
                               ELSE IF jump THEN FALSE ELSE onGround
        /\ viewState' = IF dx # 0 \/ dy # 0 \/ dz # 0
                        THEN [viewState EXCEPT !.position = moved]
                        ELSE viewState
        /\ UNCHANGED <<isPointerLocked, cameraMode, keysPressed, canvasRef,
                       animateClosure, mouseMoveClosure, pointerLockElement,
                       lockChangeQueued, loaderVars, storeVars>>

(***************************************************************************)
(* The upload server and useModelManifest.  A string is the sequence of    *)
(* its characters; a path is the sequence of its segments.                 *)
(***************************************************************************)
Public == <<"p", "u", "b", "l", "i", "c">>
Models == <<"m", "o", "d", "e", "l", "s">>
Uploads == <<"u", "p", "l", "o", "a", "d", "s">>
\* a directory beside uploads whose name starts with "uploads"
UploadsOld == <<"u", "p", "l", "o", "a", "d", "s", "2">>
DotDot == <<".", ".">>
Slash == <<"/">>
AGlb == <<"a", ".", "g", "l", "b">>
APly == <<"a", ".", "p", "l", "y">>
ABGlb == <<"a", "_", "b", ".", "g", "l", "b">>
ATxt == <<"a", ".", "t", "x", "t">>

\* path.join(__dirname, '../public/models/uploads'), below the project root
UPLOADS_DIR == <<Public, Models, Uploads>>

\* the string of an absolute path
RECURSIVE PathString(_)
PathString(path) ==
    IF path = << >> THEN << >>
    ELSE Slash \o Head(path) \o PathString(Tail(path))

\* s.startsWith(prefix)
StartsWith(s, prefix) ==
    Len(prefix) <= Len(s) /\ SubSeq(s, 1, Len(prefix)) = prefix

\* s.split('/'), cur being the segment read so far
RECURSIVE Split(_, _)
Split(s, cur) ==
    IF s = << >> THEN << cur >>
    ELSE IF Head(s) = "/" THEN << cur >> \o Split(Tail(s), << >>)
    ELSE Split(Tail(s), Append(cur, Head(s)))

\* the normalization of path.join: '..' drops a segment, '.' and '' are skipped
RECURSIVE Resolve(_, _)
Resolve(done, rest) ==
    IF rest = << >> THEN done
    ELSE IF Head(rest) = DotDot
    THEN Resolve(IF done = << >> THEN << >> ELSE SubSeq(done, 1, Len(done) - 1),
                 Tail(rest))
    ELSE IF Head(rest) \in { << >>, <<".">> } THEN Resolve(done, Tail(rest))
    ELSE Resolve(Append(done, Head(rest)), Tail(rest))

\* path.join(dir, filename)
Join(dir, filename) == Resolve(dir, Split(filename, << >>))

\* the index of the last '.' of s, 0 when there is none
LastDot(s) ==
    LET dots == { k \in 1..Len(s) : s[k] = "." }
    IN  IF dots = {} THEN 0 ELSE CHOOSE k \in dots : \A j \in dots : j <= k

\* toLowerCase on the characters of the model
LowerChar(c) == IF c = "A" THEN "a" ELSE IF c = "B" THEN "b" ELSE c
ToLower(s) == [k \in 1..Len(s) |-> LowerChar(s[k])]

\* path.extname(name): from the last '.', unless it is the first character
Extname(name) ==
    IF LastDot(name) <= 1 THEN << >> ELSE SubSeq(name, LastDot(name), Len(name))

\* path.basename(name, ext)
Basename(name, ext) ==
    IF ext # << >> /\ Len(ext) < Len(name)
       /\ SubSeq(name, Len(name) - Len(ext) + 1, Len(name)) = ext
    THEN SubSeq(name, 1, Len(name) - Len(ext))
    ELSE name

\* name.match(/\.[^.]+$/)?.[0]: << >> when there is no match
DotSuffix(name) ==
    IF LastDot(name) = 0 \/ LastDot(name) = Len(name) THEN << >>
    ELSE SubSeq(name, LastDot(name), Len(name))

AllowedExtensions ==
    { <<".", "g", "l", "b">>, <<".", "g", "l", "t", "f">>, <<".", "p", "l", "y">> }

\* the characters of the model that /[a-zA-Z0-9]/ does not match
IsAlnum(c) == c \notin {".", "_", "-", "/", " "}

\* baseName.replace(/[^a-zA-Z0-9]/g, '-')
ModelId(baseName) ==
    [k \in 1..Len(baseName) |-> IF IsAlnum(baseName[k]) THEN baseName[k] ELSE "-"]

\* file.originalname.replace(/[^a-zA-Z0-9._-]/g, '_')
SafeName(originalname) ==
    [k \in 1..Len(originalname) |->
        IF originalname[k] \in {"/", " "} THEN "_" ELSE originalname[k]]

\* the entry of the model list for a file of the uploads directory, derived
\* from the name the id is computed of (part_004:90-98 and 125-133)
ModelEntry(name, stored) ==
    [id |-> ModelId(Basename(name, ToLower(Extname(name)))),
     path |-> <<Models, Uploads, stored>>,
     source |-> "uploaded"]

\* the Authorization headers of a request: none, a wrong one, the admin's
AdminHeader == "Bearer admin123"
Headers == {"", "Bearer guess", AdminHeader}

\* requireAuth lets the request pass
Authorized(authorization) == authorization # "" /\ authorization = AdminHeader

NoResponse ==
    [op |-> "", status |-> 0, file |-> << >>, request |-> << >>, authorized |-> FALSE]
Response(op, status, file, request, authorization) ==
    [op |-> op, status |-> status, file |-> file, request |-> request,
     authorized |-> Authorized(authorization)]

\* files that exist outside the uploads directory, and none inside
StoreInit ==
    /\ disk = { <<Public, Models, UploadsOld, AGlb>>, <<Public, Models, AGlb>> }
    /\ blobs = {}
    /\ response = NoResponse
    /\ models = << >>

\* POST /api/upload: requireAuth, multer with fileFilter and diskStorage,
\* then the handler
ExpressUpload(authorization, originalname) ==
    /\ ev' = Event("upload", 0, "", FALSE)
    /\ IF ~Authorized(authorization)
       THEN /\ response' = Response("upload", 401, << >>, originalname, authorization)
            /\ UNCHANGED disk
       ELSE IF ToLower(Extname(originalname)) \notin AllowedExtensions
       THEN /\ response' = Response("upload", 500, << >>, originalname, authorization)
            /\ UNCHANGED disk
       ELSE /\ disk' = disk \cup { Append(UPLOADS_DIR, SafeName(originalname)) }
            /\ response' = Response("upload", 200,
                                    << ModelEntry(originalname, SafeName(originalname)) >>,
                                    originalname, authorization)
    /\ UNCHANGED <<blobs, models, loaderVars, navVars>>

\* the blob upload of both serverless handlers, from the file type check on
BlobUpload(op, authorization, filename) ==
    /\ ev' = Event(op, 0, "", FALSE)
    /\ IF filename = << >>
       THEN /\ response' = Response(op, 400, << >>, filename, authorization)
            /\ UNCHANGED blobs
       ELSE IF DotSuffix(ToLower(filename)) \notin AllowedExtensions
       THEN /\ response' = Response(op, 400, << >>, filename, authorization)
            /\ UNCHANGED blobs
       ELSE /\ blobs' = blobs \cup { filename }
            /\ response' = Response(op, 200,
                               << [id |-> ModelId(Basename(filename, DotSuffix(filename))),
                                   path |-> <<"blob", filename>>,
                                   source |-> "uploaded"] >>,
                               filename, authorization)
    /\ UNCHANGED <<disk, models, loaderVars, navVars>>

\* POST of a multipart form to the serverless upload handler, the blob
\* token being configured; filename is << >> when no part carries a file
BlobMultipartUpload(authorization, filename) ==
    BlobUpload("blobMultipartUpload", authorization, filename)

\* PUT of a stream to the serverless upload handler, the blob token being
\* configured; filename is << >> when neither header nor query names it
BlobStreamUpload(authorization, filename) ==
    BlobUpload("blobStreamUpload", authorization, filename)

\* what DELETE /api/models/:filename answers and leaves on the disk
DeleteResult(authorization, filename, files) ==
    LET filePath == Join(UPLOADS_DIR, filename)
    IN  IF ~Authorized(authorization) THEN [status |-> 401, disk |-> files]
        ELSE IF ~StartsWith(PathString(filePath), PathString(UPLOADS_DIR))
        THEN [status |-> 403, disk |-> files]
        ELSE IF filePath \in files THEN [status |-> 200, disk |-> files \ {filePath}]
        ELSE [status |-> 404, disk |-> files]

\* DELETE /api/models/:filename, the parameter as Express decodes it
DeleteModel(authorization, filename) ==
    /\ ev' = Event("deleteModel", 0, "", FALSE)
    /\ disk' = DeleteResult(authorization, filename, disk).disk
    /\ response' = Response("deleteModel",
                            DeleteResult(authorization, filename, disk).status,
                            << >>, filename, authorization)
    /\ UNCHANGED <<blobs, models, loaderVars, navVars>>

\* the names of a set of file names in some order (readdirSync)
RECURSIVE Listing(_)
Listing(names) ==
    IF names = {} THEN << >>
    ELSE LET n == CHOOSE x \in names : TRUE
         IN  << n >> \o Listing(names \ {n})

\* GET /api/models: the entries of the files of the uploads directory
ListModels(files) ==
    LET names == { f[Len(f)] : f \in { g \in files : /\ Len(g) = Len(UPLOADS_DIR) + 1
                                                    /\ SubSeq(g, 1, Len(UPLOADS_DIR))
                                                          = UPLOADS_DIR } }
        listed == Listing({ n \in names : ToLower(Extname(n)) \in AllowedExtensions })
    IN  [k \in 1..Len(listed) |-> ModelEntry(listed[k], listed[k])]

\* models-manifest.json: missing, or with one model
StaticManifests ==
    { << >>,
      << [id |-> <<"d">>, path |-> <<Models, <<"d", ".", "g", "l", "b">>>>,
          source |-> "static"] >> }

\* fetchModels: the uploaded models, then those of the static manifest
FetchModels(manifest) ==
    /\ Len(ListModels(disk) \o manifest) <= MaxModels
    /\ ev' = Event("fetchModels", 0, "", FALSE)
    /\ models' = ListModels(disk) \o manifest
    /\ UNCHANGED <<disk, blobs, response, loaderVars, navVars>>

\* handleUploadComplete after an upload was answered with success: addModel
AddModel ==
    /\ response.op = "upload" /\ response.status = 200
    /\ Len(models) < MaxModels
    /\ ev' = Event("addModel", 0, "", FALSE)
    /\ models' = << response.file[1] >> \o models
    /\ response' = NoResponse
    /\ UNCHANGED <<disk, blobs, loaderVars, navVars>>

\* removeModel(model.id): prev.filter(m => m.id !== modelId)
RemoveModel(list, entry) ==
    SelectSeq(list, LAMBDA m : m.id # entry.id)

\* handleDelete of the model selector on entry k of the list, the admin
\* being logged in: DELETE of model.path.split('/').pop(), then, if the
\* answer is ok, onModelDelete(model), which calls removeModel(model.id)
HandleDelete(k) ==
    /\ k \in 1..Len(models)
    /\ models[k].source = "uploaded"
    /\ LET filename == models[k].path[Len(models[k].path)]
           result == DeleteResult(AdminHeader, filename, disk)
       IN  /\ ev' = Event("handleDelete", k, "", FALSE)
           /\ disk' = result.disk
           /\ response' = Response("handleDelete", result.status, << >>, filename,
                                   AdminHeader)
           /\ models' = IF result.status = 200 THEN RemoveModel(models, models[k])
                        ELSE models
    /\ UNCHANGED <<blobs, loaderVars, navVars>>

(***************************************************************************)
(* Specifications.                                                         *)
(***************************************************************************)
Init ==
    /\ LoaderInit
    /\ NavInit
    /\ StoreInit
    /\ ev = Event("init", 0, "", FALSE)

UrlArguments == { << >> } \cup { << u >> : u \in Urls }

\* the loader, with several loads in flight and a few results
Next ==
    \/ \E url \in UrlArguments : Len(loads) < MaxLoads /\ LoadModel(url)
    \/ \E i \in 1..MaxLoads : \E e \in ProgressEvents : OnProgress(i, e[1], e[2])
    \/ \E i \in 1..Len(loads) : \E data \in FewResults(loads[i].isPLY) :
          LoadResolved(i, data)
    \/ \E i \in 1..MaxLoads : LoadRejected(i)
    \/ ClearModel

Spec == Init /\ [][Next]_vars

\* one load, with every result of the families above
NextDecode ==
    \/ \E url \in UrlArguments : Len(loads) < 1 /\ LoadModel(url)
    \/ \E e \in ProgressEvents : OnProgress(1, e[1], e[2])
    \/ \E data \in Results(Len(loads) > 0 /\ loads[1].isPLY) : LoadResolved(1, data)
    \/ LoadRejected(1)

SpecDecode == Init /\ [][NextDecode]_vars

PLYUrls == { u \in Urls : IsPLY(FullUrl(u)) }

\* one load of a .glb or .gltf file whose result has no pre-parsed mesh
NextRaw ==
    \/ \E u \in Urls \ PLYUrls : Len(loads) < 1 /\ LoadModel(<< u >>)
    \/ /\ Len(loads) = 1 /\ loads[1].status = "inflight"
       /\ \E g \in RawAssets : LoadResolved(1, << g >>)

SpecRaw == Init /\ [][NextRaw]_vars

\* one load of a .glb or .gltf file whose result has pre-parsed meshes, with
\* or without a raw json beside them
NextPre ==
    \/ \E u \in Urls \ PLYUrls : Len(loads) < 1 /\ LoadModel(<< u >>)
    \/ /\ Len(loads) = 1 /\ loads[1].status = "inflight"
       /\ \E g \in PreAssets : LoadResolved(1, << g >>)

SpecPre == Init /\ [][NextPre]_vars

\* one load of a .ply file, with every PLY result
NextPLY ==
    \/ \E u \in PLYUrls : Len(loads) < 1 /\ LoadModel(<< u >>)
    \/ \E data \in PLYResults : LoadResolved(1, data)

SpecPLY == Init /\ [][NextPLY]_vars

\* the camera in both modes: walking, climbing, jumping and falling
PhysicsKeys == {"KeyW", "Space"}
NextPhysics ==
    \/ ToggleCameraMode
    \/ CommitEffects
    \/ \E code \in PhysicsKeys : HandleKeyDown(code)
    \/ \E code \in PhysicsKeys : HandleKeyUp(code)
    \/ \E dt \in 1..MaxDt : Animate(dt)

SpecPhysics == Init /\ [][NextPhysics]_vars

\* the camera in free flight: pointer lock, looking around and walking
LookKeys == {"KeyW", "KeyS", "Escape"}
Movements == {0 - 600, 0, 600}
NextLook ==
    \/ SetCanvasElement
    \/ RequestPointerLock
    \/ ExitPointerLock
    \/ HandlePointerLockChange
    \/ CommitEffects
    \/ \E code \in LookKeys : HandleKeyDown(code)
    \/ \E code \in LookKeys : HandleKeyUp(code)
    \/ \E mx \in Movements, my \in Movements :
          /\ Abs(viewState.bearing + mx * MOUSE_SENSITIVITY) <= MaxTurn * QuarterTurn
          /\ HandleMouseMove(mx, my)
    \/ \E dt \in 1..MaxDt : Animate(dt)

SpecLook == Init /\ [][NextLook]_vars

\* the camera walking in both modes with all four movement keys, turned by
\* the mouse
WalkKeys == {"KeyW", "KeyA", "KeyS", "KeyD"}
Turns == {0 - 600, 600}
NextWalk ==
    \/ SetCanvasElement
    \/ RequestPointerLock
    \/ HandlePointerLockChange
    \/ ToggleCameraMode
    \/ CommitEffects
    \/ \E code \in WalkKeys : HandleKeyDown(code)
    \/ \E code \in WalkKeys : HandleKeyUp(code)
    \/ \E mx \in Turns :
          /\ Abs(viewState.bearing + mx * MOUSE_SENSITIVITY) <= MaxTurn * QuarterTurn
          /\ HandleMouseMove(mx, 0)
    \/ \E dt \in 1..MaxDt : Animate(dt)

\* the camera starts at eye height (the default pose of line 17)
InitWalk ==
    /\ Init
    /\ viewState.position[2] = GROUND_LEVEL

SpecWalk == InitWalk /\ [][NextWalk]_vars

\* jumping and falling from eye height with frames of 1/Scale s; the frame
\* loop of requestAnimationFrame (lines 205 and 208) keeps calling animate
JumpKeys == {"Space"}
NextFall ==
    \/ ToggleCameraMode
    \/ CommitEffects
    \/ \E code \in JumpKeys : HandleKeyDown(code)
    \/ \E code \in JumpKeys : HandleKeyUp(code)
    \/ Animate(1)

SpecFall == InitWalk /\ [][NextFall]_vars /\ WF_vars(Animate(1))

\* the upload endpoints of the repository, with any Authorization header
UploadNames == { << >>, AGlb, APly, ABGlb, ATxt }
NextUploads ==
    \/ \E h \in Headers, name \in UploadNames \ { << >> } : ExpressUpload(h, name)
    \/ \E h \in Headers, name \in UploadNames : BlobMultipartUpload(h, name)
    \/ \E h \in Headers, name \in UploadNames : BlobStreamUpload(h, name)

SpecUploads == Init /\ [][NextUploads]_vars

\* the Express server and the model list of the client
DeleteNames ==
    { AGlb, APly, ABGlb,
      DotDot \o Slash \o AGlb,
      DotDot \o Slash \o UploadsOld \o Slash \o AGlb,
      DotDot }
NextServer ==
    \/ \E h \in Headers, name \in UploadNames \ { << >> } : ExpressUpload(h, name)
    \/ \E h \in Headers, name \in DeleteNames : DeleteModel(h, name)
    \/ \E manifest \in StaticManifests : FetchModels(manifest)
    \/ AddModel
    \/ \E k \in 1..MaxModels : HandleDelete(k)

SpecServer == Init /\ [][NextServer]_vars

\* the camera as a caller of the hook may drive it: any initial pose, the
\* returned setViewState, pointer lock and mouse movements
InitPose ==
    /\ LoaderInit
    /\ PoseInit
    /\ StoreInit
    /\ ev = Event("init", 0, "", FALSE)
NextPose ==
    \/ SetCanvasElement
    \/ RequestPointerLock
    \/ HandlePointerLockChange
    \/ CommitEffects
    \/ \E view \in CallerViewStates : SetViewState(view)
    \/ \E mx \in Movements, my \in Movements :
          /\ Abs(viewState.bearing + mx * MOUSE_SENSITIVITY) <= MaxTurn * QuarterTurn
          /\ HandleMouseMove(mx, my)

SpecPose == InitPose /\ [][NextPose]_vars

(***************************************************************************)
(* Claims.                                                                 *)
(***************************************************************************)
Settled(i) == loads[i].status # "inflight"

\* C1: of two loads A, then B, once both have finished and B's data was
\* decoded, the exposed modelData is never A's: it is B's (or that of a load
\* requested after B, or cleared).
C1_LatestLoadWins ==
    \A a \in 1..Len(loads) : \A b \in 1..Len(loads) :
        (a < b /\ Settled(a) /\ loads[b].status = "published")
            => (modelData = << >> \/ modelData[1].load >= b)

\* C2: once a newer loadModel call has been made, no progress callback,
\* completion or failure of an earlier load changes loading, progress or
\* error, and loading is true for as long as the most recently requested
\* load is in flight.
C2_StaleEventsChangeNothing ==
    /\ [][(ev'.op \in {"onProgress", "resolved", "rejected"} /\ ev'.load < Len(loads))
             => UNCHANGED <<loading, progress, error>>]_vars
    /\ [](Len(loads) > 0 /\ ~Settled(Len(loads)) => loading)

\* C3: a Physics tick that starts with the camera's Y at or above the
\* ground level leaves it at or above the ground level, and a tick that
\* detects the ground collision leaves Y equal to the ground level with
\* verticalVelocity = 0 and grounded = true.
C3_GroundClamp ==
    [][(ev'.op = "animate" /\ ev'.branch = "physics")
          => /\ viewState.position[2] >= GROUND_LEVEL
                    => viewState'.position[2] >= GROUND_LEVEL
             /\ ev'.collided
                    => /\ viewState'.position[2] = GROUND_LEVEL
                       /\ velocity'[2] = 0
                       /\ onGround']_vars

\* C4: a tick with only W held displaces the camera by MOVE_SPEED * dt
\* along (sin b, 0, -cos b) for the bearing b of the pose at that tick.
C4_TickUsesCurrentBearing ==
    [][(/\ ev'.op = "animate"
        /\ keysPressed["KeyW"]
        /\ ~keysPressed["KeyS"] /\ ~keysPressed["KeyA"] /\ ~keysPressed["KeyD"])
          => \E dt \in 1..MaxDt :
                /\ viewState'.position[1] - viewState.position[1]
                     = Sin(viewState.bearing) * MOVE_SPEED * dt
                /\ viewState'.position[3] - viewState.position[3]
                     = (0 - Cos(viewState.bearing)) * MOVE_SPEED * dt]_vars

\* load i resolved, and loads[i].data is what it resolved with
Resolved(i) == loads[i].status \in {"published", "threw"}
\* modelData was published by load i
PublishedBy(i) == modelData # << >> /\ modelData[1].load = i
\* the extraction of load i takes the raw strategy
UsesRaw(i) ==
    /\ ~loads[i].isPLY /\ Resolved(i) /\ loads[i].data # << >>
    /\ loads[i].data[1].json # << >> /\ loads[i].data[1].buffers # << >>
    /\ (Len(loads[i].data[1].meshes) = 0
          \/ PreParsedFrom(loads[i].data[1].meshes, 1, 1) = << >>)
\* the primitives of the raw json of load i, as pairs (mesh, primitive)
RawPrimitives(i) ==
    LET ms == loads[i].data[1].json[1].meshes
    IN  { mp \in (1..Len(ms)) \X (1..MaxPrims + 1) : mp[2] <= Len(ms[mp[1]]) }
PositionOf(i, mp) ==
    ResolveFloat3(loads[i].data[1].json[1], loads[i].data[1].buffers[1],
                  loads[i].data[1].json[1].meshes[mp[1]][mp[2]].POSITION)
NormalOf(i, mp) ==
    ResolveFloat3(loads[i].data[1].json[1], loads[i].data[1].buffers[1],
                  loads[i].data[1].json[1].meshes[mp[1]][mp[2]].NORMAL)
ColorOf(i, mp) ==
    ResolveColor(loads[i].data[1].json[1], loads[i].data[1].buffers[1],
                 loads[i].data[1].json[1].meshes[mp[1]][mp[2]].COLOR_0)
\* an optional attribute that is named but cannot be resolved: its byte
\* range is outside the buffer, or its component type is not recognized
Unresolvable(attribute) ==
    attribute.found /\ (attribute.threw \/ ~IsArray(attribute.array))

\* C5: a GLB/GLTF load whose extraction yields zero meshes ends as a load
\* failure with error set; it never ends with modelData holding an empty
\* mesh list and error null.
C5_ZeroMeshesIsFailure ==
    \A i \in 1..Len(loads) :
        (/\ ~loads[i].isPLY /\ Resolved(i) /\ loads[i].data # << >>
         /\ ~ExtractMeshes(loads[i].data).threw
         /\ ExtractMeshes(loads[i].data).meshes = << >>)
            => /\ error # << >>
               /\ ~(PublishedBy(i) /\ modelData[1].meshes = << >>)

\* C6: a PLY load whose attribute table has no POSITION attribute fails:
\* the load ends with error set and no modelData is published for it.
C6_MissingPositionFails ==
    \A i \in 1..Len(loads) :
        (/\ loads[i].isPLY /\ Resolved(i)
         /\ loads[i].data # << >> /\ loads[i].data[1].attributes # << >>
         /\ "POSITION" \notin DOMAIN loads[i].data[1].attributes[1])
            => error # << >> /\ ~PublishedBy(i)

\* C7: in the raw strategy, a primitive whose POSITION accessor reaches
\* past its buffer is dropped from the mesh list while every other primitive
\* of the asset is still decoded, and the load does not fail.  (Stated for
\* assets whose NORMAL and COLOR_0 accessors are all in range.)
C7_MalformedPositionDropsPrimitive ==
    \A i \in 1..Len(loads) :
        (/\ UsesRaw(i)
         /\ \E mp \in RawPrimitives(i) : PositionOf(i, mp).threw
         /\ \A mp \in RawPrimitives(i) :
               PositionOf(i, mp).found /\ ~PositionOf(i, mp).threw
                  => ~NormalOf(i, mp).threw /\ ~ColorOf(i, mp).threw)
            => /\ loads[i].status = "published"
               /\ PublishedBy(i)
               /\ \A mp \in RawPrimitives(i) :
                     (\E k \in 1..Len(modelData[1].meshes) :
                         modelData[1].meshes[k].id = <<"mesh", mp[1] - 1, mp[2] - 1>>)
                        <=> (PositionOf(i, mp).found /\ ~PositionOf(i, mp).threw)

\* C8: in the raw strategy, a NORMAL or COLOR_0 accessor that cannot be
\* resolved (byte range outside its buffer, or an unrecognized component
\* type) makes only that attribute absent: the mesh is still emitted with
\* its positions and the load does not fail.  (Stated for assets whose
\* POSITION accessors are all in range.)
C8_MalformedOptionalAttributeOmitted ==
    \A i \in 1..Len(loads) :
        (/\ UsesRaw(i)
         /\ \A mp \in RawPrimitives(i) : ~PositionOf(i, mp).threw
         /\ \E mp \in RawPrimitives(i) :
               /\ PositionOf(i, mp).found
               /\ Unresolvable(NormalOf(i, mp)) \/ Unresolvable(ColorOf(i, mp)))
            => /\ loads[i].status = "published"
               /\ PublishedBy(i)
               /\ \A mp \in RawPrimitives(i) :
                     PositionOf(i, mp).found
                        => \E k \in 1..Len(modelData[1].meshes) :
                              LET mesh == modelData[1].meshes[k]
                              IN  /\ mesh.id = <<"mesh", mp[1] - 1, mp[2] - 1>>
                                  /\ mesh.positions = PositionOf(i, mp).array
                                  /\ mesh.normals = NormalOf(i, mp).array
                                  /\ mesh.colors = ColorOf(i, mp).array

\* C9: when a PLY attribute table has no combined NORMAL array but has nx,
\* ny and nz arrays of n values each, the normals of the mesh are the 3n
\* values nx[0], ny[0], nz[0], ..., nx[n-1], ny[n-1], nz[n-1].  (Stated for
\* tables without f_dc_0, whose normals are not flipped afterwards.)
C9_SeparateNormalsInterleaved ==
    \A i \in 1..Len(loads) :
        (/\ loads[i].isPLY /\ Resolved(i)
         /\ loads[i].data # << >> /\ loads[i].data[1].attributes # << >>
         /\ {"POSITION", "nx", "ny", "nz"} \subseteq DOMAIN loads[i].data[1].attributes[1]
         /\ "NORMAL" \notin DOMAIN loads[i].data[1].attributes[1]
         /\ "f_dc_0" \notin DOMAIN loads[i].data[1].attributes[1])
            => /\ PublishedBy(i)
               /\ Len(modelData[1].meshes) = 1
               /\ LET t == loads[i].data[1].attributes[1]
                  IN  modelData[1].meshes[1].normals
                         = F32(Interleave(t["nx"], t["ny"], t["nz"], Length(t["nx"])))

\* C10: every mesh produced by decoding has positions.length = 3 * vertexCount,
\* normals.length = 3 * vertexCount when normals are present, and
\* colors.length = 3 * vertexCount or 4 * vertexCount when colors are present.
C10_MeshLengths ==
    modelData # << >> =>
        \A k \in 1..Len(modelData[1].meshes) :
            LET mesh == modelData[1].meshes[k]
            IN  /\ Length(mesh.positions) = 3 * mesh.vertexCount
                /\ IsArray(mesh.normals) => Length(mesh.normals) = 3 * mesh.vertexCount
                /\ IsArray(mesh.colors) =>
                      Length(mesh.colors) \in {3 * mesh.vertexCount, 4 * mesh.vertexCount}

\* load i resolved with a PLY attribute table that has positions
DecodedTable(i) ==
    /\ loads[i].isPLY /\ Resolved(i)
    /\ loads[i].data # << >> /\ loads[i].data[1].attributes # << >>
    /\ "POSITION" \in DOMAIN loads[i].data[1].attributes[1]
TableOf(i) == loads[i].data[1].attributes[1]
\* c holds r[0], g[0], b[0], r[1], g[1], b[1], ...
IsInterleaved(c, r, g, b) ==
    /\ IsArray(c) /\ Length(c) = 3 * Length(r)
    /\ \A k \in 0..(Length(r) - 1) :
          /\ Elem(c, 3 * k) = Elem(r, k)
          /\ Elem(c, 3 * k + 1) = Elem(g, k)
          /\ Elem(c, 3 * k + 2) = Elem(b, k)
RedOf(t) == FirstAttr(t, <<"red", "Red", "RED", "r", "R">>)
GreenOf(t) == FirstAttr(t, <<"green", "Green", "GREEN", "g", "G">>)
BlueOf(t) == FirstAttr(t, <<"blue", "Blue", "BLUE", "b", "B">>)
HasRGB(t) == IsArray(RedOf(t)) /\ IsArray(GreenOf(t)) /\ IsArray(BlueOf(t))
HasDiffuse(t) == {"diffuse_red", "diffuse_green", "diffuse_blue"} \subseteq DOMAIN t
HasSplat(t) == {"f_dc_0", "f_dc_1", "f_dc_2"} \subseteq DOMAIN t

\* C11: the axis correction (Y and Z of positions and normals negated) is
\* applied if and only if colour rule (4), the f_dc_0/1/2 rule, is the rule
\* that yielded the colours; otherwise positions and normals pass through
\* unmodified.  (Normals are stated for tables with a combined NORMAL.)
C11_FlipOnlyWhenRule4Fired ==
    \A i \in 1..Len(loads) :
        DecodedTable(i)
            => /\ PublishedBy(i)
               /\ Len(modelData[1].meshes) = 1
               /\ modelData[1].meshes[1].positions
                     = IF ColorRule(TableOf(i)) = 4 THEN FlipYZ(TableOf(i)["POSITION"])
                       ELSE TableOf(i)["POSITION"]
               /\ "NORMAL" \in DOMAIN TableOf(i)
                     => modelData[1].meshes[1].normals
                          = IF ColorRule(TableOf(i)) = 4 THEN FlipYZ(TableOf(i)["NORMAL"])
                            ELSE TableOf(i)["NORMAL"]

\* C12: the colours come from the first matching rule in the order COLOR_0,
\* red/green/blue under any alias, diffuse_red/green/blue, f_dc_0/1/2; a table
\* with both red/green/blue and f_dc_0/1/2 yields the interleaved
\* red/green/blue values, never the SH-decoded ones.
C12_ColorRuleOrder ==
    \A i \in 1..Len(loads) :
        DecodedTable(i)
            => /\ PublishedBy(i)
               /\ Len(modelData[1].meshes) = 1
               /\ LET t == TableOf(i)
                      c == modelData[1].meshes[1].colors
                  IN  /\ "COLOR_0" \in DOMAIN t => c = t["COLOR_0"]
                      /\ ("COLOR_0" \notin DOMAIN t /\ HasRGB(t))
                            => IsInterleaved(c, RedOf(t), GreenOf(t), BlueOf(t))
                      /\ ("COLOR_0" \notin DOMAIN t /\ ~HasRGB(t) /\ HasDiffuse(t))
                            => IsInterleaved(c, t["diffuse_red"], t["diffuse_green"],
                                             t["diffuse_blue"])
                      /\ ("COLOR_0" \notin DOMAIN t /\ ~HasRGB(t) /\ ~HasDiffuse(t)
                            /\ ~HasSplat(t)) => ~IsArray(c)
C12_Witness ==
    \E i \in 1..Len(loads) :
        /\ DecodedTable(i) /\ PublishedBy(i)
        /\ HasRGB(TableOf(i)) /\ HasSplat(TableOf(i))
        /\ Length(TableOf(i)["f_dc_0"]) > 0
        /\ IsInterleaved(modelData[1].meshes[1].colors, RedOf(TableOf(i)),
                         GreenOf(TableOf(i)), BlueOf(TableOf(i)))

\* C13: colours interleaved from separate channels are 8-bit unsigned
\* exactly when the first sample of the red channel is greater than 1, and
\* float otherwise; the green and blue channels do not influence the choice.
C13_WidthFromRedOnly ==
    \A i \in 1..Len(loads) :
        (DecodedTable(i) /\ ColorRule(TableOf(i)) \in {2, 3})
            => /\ PublishedBy(i)
               /\ LET t == TableOf(i)
                      red == IF ColorRule(t) = 2 THEN RedOf(t) ELSE t["diffuse_red"]
                  IN  (modelData[1].meshes[1].colors.type = "Uint8Array")
                         <=> (Length(red) > 0 /\ Elem(red, 0) > 1)

\* round(clamp(0.5 + 0.28209479177387814 * dc, 0, 1) * 255) for integer dc,
\* computed by hand: 0.2179 * 255 = 55.57, 0.5 * 255 = 127.5 (half, goes up),
\* 0.7821 * 255 = 199.43, and 0.5 + 0.2821 * dc is outside [0, 1] when |dc| >= 2
ExpectedShByte(dc) ==
    IF dc <= 0 - 2 THEN 0
    ELSE IF dc = 0 - 1 THEN 56
    ELSE IF dc = 0 THEN 128
    ELSE IF dc = 1 THEN 199
    ELSE 255

\* C14: each SH-decoded colour byte equals
\* round(clamp(0.5 + 0.28209479177387814 * dc, 0, 1) * 255), halves up: it
\* lies in 0..255, dc = 0 gives 128, very large or small dc give exactly 255
\* or 0 without wrap-around, and the output array is 8-bit unsigned.
C14_ShDecode ==
    \A i \in 1..Len(loads) :
        (DecodedTable(i) /\ HasSplat(TableOf(i)) /\ "COLOR_0" \notin DOMAIN TableOf(i)
            /\ ~HasRGB(TableOf(i)) /\ ~HasDiffuse(TableOf(i)))
            => /\ PublishedBy(i)
               /\ LET t == TableOf(i)
                      c == modelData[1].meshes[1].colors
                  IN  /\ c.type = "Uint8Array"
                      /\ Length(c) = 3 * Length(t["f_dc_0"])
                      /\ \A k \in 0..(Length(t["f_dc_0"]) - 1) :
                            /\ Elem(c, 3 * k) = ExpectedShByte(Elem(t["f_dc_0"], k))
                            /\ Elem(c, 3 * k + 1) = ExpectedShByte(Elem(t["f_dc_1"], k))
                            /\ Elem(c, 3 * k + 2) = ExpectedShByte(Elem(t["f_dc_2"], k))
                      /\ \A k \in 1..Length(c) : c.data[k] \in 0..255
C14_Witness ==
    \E i \in 1..Len(loads) :
        /\ DecodedTable(i) /\ PublishedBy(i) /\ ColorRule(TableOf(i)) = 4
        /\ Length(TableOf(i)["f_dc_0"]) = MaxVerts
        /\ Elem(TableOf(i)["f_dc_0"], 0) = 0
        /\ Elem(TableOf(i)["f_dc_1"], 0) >= 1000
        /\ Elem(TableOf(i)["f_dc_2"], 0) <= 0 - 1000
        /\ SubSeq(modelData[1].meshes[1].colors.data, 1, 3) = <<128, 255, 0>>

\* out has the length of in, with out[3k] = in[3k], out[3k+1] = -in[3k+1]
\* and out[3k+2] = -in[3k+2]
IsFlipOf(out, in) ==
    /\ Len(out) = Len(in)
    /\ \A k \in 1..Len(in) :
          out[k] = IF (k - 1) % 3 = 0 THEN in[k] ELSE 0 - in[k]

\* C15: when the axis correction is applied, the emitted positions array is
\* a different array from the decoded input, of the same length, with
\* out[3k] = in[3k], out[3k+1] = -in[3k+1], out[3k+2] = -in[3k+2], and the
\* input array's contents are unchanged after the decode; likewise for the
\* normals.
C15_FlipAllocatesFresh ==
    \A i \in 1..Len(loads) :
        (DecodedTable(i) /\ "f_dc_0" \in DOMAIN TableOf(i))
            => /\ PublishedBy(i)
               /\ LET t == TableOf(i)
                      o == modelData[1].objects
                      mesh == modelData[1].meshes[1]
                      inNormals == OrElse(Attr(t, "NORMAL"), Attr(t, "nx"))
                  IN  /\ o.positions # "positions"
                      /\ o.heap["positions"] = t["POSITION"].data
                      /\ mesh.positions.data = o.heap[o.positions]
                      /\ IsFlipOf(mesh.positions.data, t["POSITION"].data)
                      /\ IsArray(inNormals)
                            => /\ IsArray(mesh.normals)
                               /\ o.normals # "normalData"
                               /\ o.heap["normalData"] = inNormals.data
                               /\ mesh.normals.data = o.heap[o.normals]
                               /\ IsFlipOf(mesh.normals.data, inNormals.data)
C15_Witness ==
    \E i \in 1..Len(loads) :
        /\ DecodedTable(i) /\ PublishedBy(i)
        /\ {"f_dc_0", "NORMAL"} \subseteq DOMAIN TableOf(i)
        /\ Length(TableOf(i)["POSITION"]) = 3 * MaxVerts
        /\ modelData[1].objects.positions = "finalPositions"
        /\ modelData[1].objects.normals = "finalNormals"
        /\ modelData[1].meshes[1].positions # TableOf(i)["POSITION"]

\* C16: in every reachable state of the navigation controller, whatever the
\* initial pose supplied by the caller and whatever pointer-move events
\* occur, pitch lies in [-89, 89].
C16_PitchInRange ==
    viewState.pitch >= 0 - PITCH_LIMIT /\ viewState.pitch <= PITCH_LIMIT

\* C17: immediately after every toggleCameraMode call verticalVelocity = 0
\* and grounded = true, whatever they were before; and the first Physics
\* tick after a switch into Physics mode starts from those values, also when
\* a tick of the previous mode runs between the toggle and the start of the
\* Physics loop: the values are still the reset ones for as long as the
\* frames are those of the Free loop and when the Physics loop is started,
\* and no key event changes them.
C17_ToggleResets ==
    /\ [][ev'.op = "toggleCameraMode" => velocity'[2] = 0 /\ onGround']_vars
    /\ []((cameraMode = "physics" /\ animateClosure.cameraMode = "free")
            => velocity[2] = 0 /\ onGround)
    /\ [][(ev'.op = "commit" /\ cameraMode = "physics")
            => velocity'[2] = 0 /\ onGround']_vars
    /\ [][ev'.op \in {"keydown", "keyup", "commit"}
            => UNCHANGED <<velocity, onGround>>]_vars
\* a frame of the Free loop has run after the toggle into Physics mode
C17_Witness ==
    /\ ev.op = "animate" /\ ev.branch = "free"
    /\ cameraMode = "physics" /\ animateClosure.cameraMode = "free"
    /\ keysPressed["Space"]
    /\ velocity[2] = 0 /\ onGround

\* C18: after pointer lock is lost, no pointer-move event changes bearing or
\* pitch until lock is regained, including the first pointer-move event
\* delivered after the pointerlockchange event that reported the loss.
C18_NoLookWithoutLock ==
    [][(ev'.op = "mousemove" /\ ~isPointerLocked)
          => /\ viewState'.bearing = viewState.bearing
             /\ viewState'.pitch = viewState.pitch]_vars

\* C19: in any tick in which W and S are both held, and A and D are either
\* both held or both released, the planar displacement (dx, dz) is exactly
\* zero for every bearing and deltaTime; in Free mode with no vertical key
\* held such a tick performs no position write at all.
C19_OppositeKeysCancel ==
    [][(/\ ev'.op = "animate"
        /\ keysPressed["KeyW"] /\ keysPressed["KeyS"]
        /\ keysPressed["KeyA"] <=> keysPressed["KeyD"])
          => /\ viewState'.position[1] = viewState.position[1]
             /\ viewState'.position[3] = viewState.position[3]
             /\ (/\ ev'.branch = "free" /\ ~keysPressed["Space"]
                 /\ ~keysPressed["ShiftLeft"] /\ ~keysPressed["ShiftRight"])
                   => ~ev'.wrote /\ viewState' = viewState]_vars
\* a Free tick with all four keys held, at a bearing of a quarter turn
C19_Witness ==
    /\ ev.op = "animate" /\ ev.branch = "free" /\ ~ev.wrote
    /\ keysPressed["KeyW"] /\ keysPressed["KeyS"]
    /\ keysPressed["KeyA"] /\ keysPressed["KeyD"]
    /\ animateClosure.bearing # 0

Materialized(i) ==
    LET ms == loads[i].data[1].meshes
    IN  { mp \in (1..Len(ms)) \X (1..MaxPrims + 1) :
            mp[2] <= Len(ms[mp[1]]) /\ IsArray(ms[mp[1]][mp[2]].POSITION) }

\* C21: the raw strategy runs only when the pre-parsed strategy produced no
\* mesh at all: one decode output never mixes meshes of both strategies, and
\* once at least one primitive has materialized POSITION values, primitives
\* without them contribute nothing even if their positions are resolvable
\* through accessors.
C21_StrategiesNeverMix ==
    \A i \in 1..Len(loads) :
        (/\ ~loads[i].isPLY /\ Resolved(i) /\ loads[i].data # << >>
         /\ Materialized(i) # {})
            => /\ loads[i].status = "published" /\ PublishedBy(i)
               /\ Len(modelData[1].meshes) = Cardinality(Materialized(i))
               /\ \A k \in 1..Len(modelData[1].meshes) :
                     \E mp \in Materialized(i) :
                        /\ modelData[1].meshes[k].id = <<"mesh", mp[1] - 1, mp[2] - 1>>
                        /\ modelData[1].meshes[k].positions
                              = loads[i].data[1].meshes[mp[1]][mp[2]].POSITION
\* an asset with one materialized primitive, one primitive without POSITION
\* values, and a raw json whose POSITION accessor resolves
C21_Witness ==
    /\ ev.op = "resolved" /\ Len(loads) = 1 /\ ~loads[1].isPLY
    /\ loads[1].status = "published" /\ PublishedBy(1)
    /\ loads[1].data # << >>
    /\ Cardinality(Materialized(1)) = 1
    /\ Len(loads[1].data[1].meshes[1]) = 2
    /\ loads[1].data[1].json # << >>
    /\ ResolveFloat3(loads[1].data[1].json[1], loads[1].data[1].buffers[1], 0).found
    /\ Len(modelData[1].meshes) = 1

\* C22: in a Physics tick, verticalVelocity is set to the jump velocity (8)
\* only if the jump key is held and grounded is true at the start of that
\* tick, and that tick clears grounded; while grounded is false, holding the
\* jump key changes verticalVelocity by gravity * deltaTime only.  (The
\* values are those the tick leaves; a tick that ends in the ground
\* collision of lines 186-190 leaves 0 and grounded instead.)
C22_JumpOnlyFromGround ==
    [][(ev'.op = "animate" /\ ev'.branch = "physics")
          => /\ velocity'[2] = JUMP_VELOCITY
                   => keysPressed["Space"] /\ onGround /\ ~onGround'
             /\ (keysPressed["Space"] /\ onGround /\ ~ev'.collided)
                   => velocity'[2] = JUMP_VELOCITY /\ ~onGround'
             /\ (~onGround /\ ~ev'.collided)
                   => /\ ~onGround'
                      /\ \E dt \in 1..MaxDt :
                            velocity'[2] = velocity[2] + (GRAVITY * dt) \div Scale]_vars
\* in the air after a jump, with the jump key still held
C22_Witness ==
    /\ ev.op = "animate" /\ ev.branch = "physics" /\ ~ev.collided
    /\ keysPressed["Space"] /\ ~onGround
    /\ velocity[2] > 0 /\ velocity[2] < JUMP_VELOCITY

\* C23: no mid-air jump: in Physics mode a tick sets grounded to true only
\* when it leaves the camera's position Y equal to the ground level, so a
\* jump that follows a landing starts from a position whose Y is the ground
\* level.
C23_GroundedOnlyOnGround ==
    [][(ev'.op = "animate" /\ ev'.branch = "physics")
          => /\ (ev'.collided /\ onGround')
                    => viewState'.position[2] = GROUND_LEVEL
             /\ (ev.op = "animate" /\ ev.collided /\ velocity'[2] = JUMP_VELOCITY)
                    => viewState.position[2] = GROUND_LEVEL]_vars

\* C24: in Physics mode, if the camera's Y is above the ground level and
\* the jump key is not held, then under repeated ticks with positive
\* deltaTime the camera's Y eventually equals the ground level with
\* grounded = true (unless the jump key is pressed or the mode is left
\* first).  Stated for a camera that jumped from the ground level in the
\* current Physics session, is in the air and at most one jump impulse
\* above the ground.
C24_FallsToGround ==
    (/\ cameraMode = "physics" /\ animateClosure.cameraMode = "physics"
     /\ animateClosure.y = GROUND_LEVEL
     /\ viewState.position[2] > GROUND_LEVEL
     /\ viewState.position[2] <= GROUND_LEVEL + JUMP_VELOCITY
     /\ ~onGround
     /\ ~keysPressed["Space"])
        ~> (\/ viewState.position[2] = GROUND_LEVEL /\ onGround
            \/ keysPressed["Space"]
            \/ cameraMode # "physics")

\* C25: after clearModel returns, modelData stays null and progress stays 0
\* until loadModel is called again, even if a load that was requested before
\* the clearModel call completes afterwards.  (modelUrl is null exactly from
\* a clearModel, or the construction, to the next loadModel with a URL.)
C25_ClearedStaysCleared ==
    modelUrl = << >> => modelData = << >> /\ progress = 0

\* C26: a load that fails (the loader rejects or extraction throws) sets
\* error to a non-null message, returns loading to false, and leaves
\* modelData exactly as it was; every loadModel call with a non-empty URL
\* whose underlying load settles leaves loading false when it settles.
C26_FailureKeepsModel ==
    /\ [][ev'.op \in {"resolved", "rejected"} => ~loading']_vars
    /\ [][(\/ ev'.op = "rejected"
           \/ ev'.op = "resolved" /\ loads'[ev'.load].status = "threw")
             => /\ error' # << >>
                /\ ~loading'
                /\ modelData' = modelData]_vars
\* a load is rejected while the model of an earlier load is shown
C26_Witness ==
    /\ ev.op = "rejected" /\ loads[ev.load].status = "rejected"
    /\ modelData # << >> /\ modelData[1].load < ev.load
    /\ error # << >> /\ ~loading

\* the path lies inside the uploads directory
InsideUploads(path) ==
    /\ Len(path) > Len(UPLOADS_DIR)
    /\ SubSeq(path, 1, Len(UPLOADS_DIR)) = UPLOADS_DIR

\* C27: DELETE /api/models/:filename removes a file only if the path
\* resolved from the filename lies inside the uploads directory; every
\* filename that resolves to a path outside that directory is answered 403
\* and deletes nothing.  (For requests that carry the admin's token.)
C27_DeleteStaysInUploads ==
    [][(ev'.op = "deleteModel" /\ response'.authorized)
          => /\ \A path \in disk \ disk' : InsideUploads(path)
             /\ ~InsideUploads(Join(UPLOADS_DIR, response'.request))
                   => response'.status = 403 /\ disk' = disk]_vars

\* C28: an upload endpoint stores a model file only when the request
\* carries the admin bearer token: an upload request with a missing or wrong
\* Authorization header is rejected and stores nothing, on every upload
\* endpoint of the repository.
C28_UploadNeedsToken ==
    [][(/\ ev'.op \in {"upload", "blobMultipartUpload", "blobStreamUpload"}
        /\ ~response'.authorized)
          => /\ response'.status # 200
             /\ disk' = disk
             /\ blobs' = blobs]_vars

\* C29: model ids in the list identify one file each, so removeModel(id)
\* for a deleted file removes exactly that file's entry and keeps the entry
\* of every other file (for example of a file with the same base name and
\* a different extension).
C29_RemoveOnlyDeletedFile ==
    [][(ev'.op = "handleDelete" /\ response'.status = 200)
          => /\ \A i \in 1..Len(models') : models'[i].path # models[ev'.load].path
             /\ \A j \in 1..Len(models) :
                   models[j].path # models[ev'.load].path
                      => \E i \in 1..Len(models') : models'[i] = models[j]]_vars

\* C30: toggleCameraMode changes only mode, verticalVelocity and grounded:
\* position, bearing, pitch, the held-key table and the pointer-lock flag
\* are the same immediately after the call as before it.
C30_ToggleFrame ==
    [][ev'.op = "toggleCameraMode"
          => /\ cameraMode' # cameraMode
             /\ viewState' = viewState
             /\ keysPressed' = keysPressed
             /\ isPointerLocked' = isPointerLocked]_vars
\* a toggle with the pointer locked, keys held, the camera turned and moved
C30_Witness ==
    /\ ev.op = "toggleCameraMode"
    /\ isPointerLocked
    /\ keysPressed["KeyW"] /\ keysPressed["KeyD"]
    /\ viewState.bearing # 0
    /\ viewState \notin InitialViewStates
    /\ viewState.position # <<0, GROUND_LEVEL, 70>>

=============================================================================
